---------------------------- MODULE Spec2Model ----------------------------
(***************************************************************************)
(* Model of the YouTube resolution and acquisition pipeline of            *)
(* src/src/helpers/_youtube.py (classes YouTubeUtils and YouTubeData).    *)
(*                                                                         *)
(* Strings are sequences of atoms.  A URL is a sequence of URL atoms       *)
(* ("https://", "www.", "youtube.com", "/", "watch", "?", "v=", an id,    *)
(* ...), a duration or a subprocess output is a sequence of characters.    *)
(* Python dicts are TLA+ records whose DOMAIN is the set of keys present.  *)
(* None and a raised exception are the tagged records None and Raised.     *)
(***************************************************************************)
EXTENDS Integers, Sequences, FiniteSets, TLC

VARIABLES
    config,     \* the imported configuration: API_URL1, API_URL2, PROXY
    rs_op,      \* resolution: the public operation in progress
    rs_raw,     \* resolution: the query handed to YouTubeData(query)
    rs_query,   \* resolution: self.query
    rs_url,     \* resolution: the url the pending upstream call is about
    rs_pc,      \* resolution: the await the operation is suspended at
    rs_calls,   \* resolution: the upstream calls issued so far, with responses
    rs_result,  \* resolution: the value returned to the caller
    dl_track,   \* acquisition: the track argument of download_track
    dl_video,   \* acquisition: the video argument of download_track
    dl_pc,      \* acquisition: the await download_track is suspended at
    dl_url,     \* acquisition: dl_url / api_endpoint of the pending transfer
    dl_params,  \* acquisition: the optional flags of ytdlp_params
    dl_proc,    \* acquisition: the extractor subprocess
    dl_tiers,   \* acquisition: the tiers entered so far, with what each returned
    dl_calls,   \* acquisition: the external calls issued so far, with responses
    dl_result,  \* acquisition: the value returned to the caller
    fn_op,      \* utilities: the static methods of YouTubeUtils called so far,
                \* each on the value the one before returned
    fn_arg,     \* utilities: the argument of the first call
    fn_ret,     \* utilities: the value the last call returned
    cc_video,   \* concurrent downloads: the video argument of each call
    cc_pc,      \* concurrent downloads: the await each call is suspended at
    cc_result,  \* concurrent downloads: the value each call returned
    cc_files,   \* concurrent downloads: the downloads directory
    cc_seen,    \* concurrent downloads: the file a call returned, as it was then
    dv_config,  \* developer commands: OWNER_ID, DEVS and LOGGER_ID of src.config
    dv_stored,  \* developer commands: the settings the database holds
    dv_before,  \* developer commands: the settings before the last message
    dv_msg,     \* developer commands: the last message handled
    dv_effects  \* developer commands: what handling it did besides

rs_vars == <<rs_op, rs_raw, rs_query, rs_url, rs_pc, rs_calls, rs_result>>
dl_vars ==
    <<dl_track, dl_video, dl_pc, dl_url, dl_params, dl_proc, dl_tiers, dl_calls, dl_result>>
fn_vars == <<fn_op, fn_arg, fn_ret>>
\* what the resolution and the acquisition never touch
cc_vars == <<cc_video, cc_pc, cc_result, cc_files, cc_seen>>
dv_vars == <<dv_config, dv_stored, dv_before, dv_msg, dv_effects>>
rest_vars == <<fn_vars, cc_vars, dv_vars>>
vars == <<config, rs_vars, dl_vars, rest_vars>>

----------------------------------------------------------------------------
(* Bounds of the model. *)

MaxEntries == 2
MaxStdout == 2

----------------------------------------------------------------------------
(* Python values. *)

None == [tag |-> "None"]
Raised == [tag |-> "Raised"]

\* bool(d) of a dict-or-None value
Truthy(d) ==
    /\ d # None
    /\ d # Raised
    /\ DOMAIN d # {}

\* d.get(k, default)
Get(d, k, default) ==
    IF k \in DOMAIN d THEN d[k] ELSE default

\* bool(d.get(k)) for a key holding a string or a list
HasValue(d, k) ==
    /\ k \in DOMAIN d
    /\ d[k] # <<>>

----------------------------------------------------------------------------
(* Strings as sequences of atoms. *)

\* index of the first occurrence of atom a in s, 0 when there is none
RECURSIVE IndexFrom(_, _, _)
IndexFrom(s, a, i) ==
    IF i > Len(s) THEN 0
    ELSE IF s[i] = a THEN i
    ELSE IndexFrom(s, a, i + 1)

Find(s, a) == IndexFrom(s, a, 1)

\* s.split(a)[0], s.partition(a)[0]
Before(s, a) ==
    IF Find(s, a) = 0 THEN s ELSE SubSeq(s, 1, Find(s, a) - 1)

\* everything after the first occurrence of a
After(s, a) ==
    SubSeq(s, Find(s, a) + 1, Len(s))

Whitespace == {" ", "\n"}

RECURSIVE lstrip(_)
lstrip(s) ==
    IF s # <<>> /\ Head(s) \in Whitespace THEN lstrip(Tail(s)) ELSE s

RECURSIVE rstrip(_)
rstrip(s) ==
    IF s # <<>> /\ s[Len(s)] \in Whitespace
    THEN rstrip(SubSeq(s, 1, Len(s) - 1))
    ELSE s

\* str.strip()
strip(s) == rstrip(lstrip(s))

----------------------------------------------------------------------------
(* URL atoms. *)

VideoIds == {"dQw4w9WgXcQ", "abcdefghijk"}       \* match [\w-]{11}
ListIds == {"PLx"}
Words == VideoIds \cup ListIds \cup {"watch", "playlist", "song", "name", "x", "page"}
Schemes == {"https://", "http://"}

\* atoms whose last character is a word character (no \b after them before "list=")
EndsWithWordChar(a) == a \in Words \cup {"youtube.com", "youtu.be", "example.com"}

\* position after the optional scheme and the optional www. of a URL pattern
AfterSchemeWww(u) ==
    LET i == IF Len(u) >= 1 /\ u[1] \in Schemes THEN 2 ELSE 1
    IN  IF Len(u) >= i /\ u[i] = "www." THEN i + 1 ELSE i

\* u[i..] begins with the atoms of t
StartsWithAt(u, i, t) ==
    /\ Len(u) >= i + Len(t) - 1
    /\ \A k \in 1..Len(t) : u[i + k - 1] = t[k]

\* position after (?:youtube\.com|music\.youtube\.com|youtu\.be)/ , 0 for no match
AfterVideoHost(u, i) ==
    IF StartsWithAt(u, i, <<"youtube.com", "/">>) THEN i + 2
    ELSE IF StartsWithAt(u, i, <<"music.", "youtube.com", "/">>) THEN i + 3
    ELSE IF StartsWithAt(u, i, <<"youtu.be", "/">>) THEN i + 2
    ELSE 0

\* position after (?:youtube\.com|music\.youtube\.com)/ , 0 for no match
AfterListHost(u, i) ==
    IF StartsWithAt(u, i, <<"youtube.com", "/">>) THEN i + 2
    ELSE IF StartsWithAt(u, i, <<"music.", "youtube.com", "/">>) THEN i + 3
    ELSE 0

\* position after (?:watch\?v=|embed/|v/|shorts/)?
AfterVideoPrefix(u, i) ==
    IF StartsWithAt(u, i, <<"watch", "?", "v=">>) THEN i + 3
    ELSE IF StartsWithAt(u, i, <<"embed/">>) THEN i + 1
    ELSE IF StartsWithAt(u, i, <<"v/">>) THEN i + 1
    ELSE IF StartsWithAt(u, i, <<"shorts/">>) THEN i + 1
    ELSE i

\* YOUTUBE_VIDEO_PATTERN.match(u): group 1, or None
YOUTUBE_VIDEO_PATTERN(u) ==
    LET h == AfterVideoHost(u, AfterSchemeWww(u))
        p == AfterVideoPrefix(u, h)
    IN  IF /\ h # 0
           /\ Len(u) >= p
           /\ u[p] \in VideoIds
           /\ (Len(u) = p \/ u[p + 1] \in {"?", "&"})
        THEN [group1 |-> <<u[p]>>]
        ELSE None

\* YOUTUBE_PLAYLIST_PATTERN.match(u): a match object or None.  The code uses
\* only whether it matched; group 1 is the id atom after the last "list=".
YOUTUBE_PLAYLIST_PATTERN(u) ==
    LET h == AfterListHost(u, AfterSchemeWww(u))
        hits == {j \in 2..Len(u) :
                    /\ h # 0
                    /\ Len(u) >= h + 1
                    /\ u[h] \in {"playlist", "watch"}
                    /\ u[h + 1] = "?"
                    /\ j >= h + 2
                    /\ u[j] = "list="
                    /\ ~EndsWithWordChar(u[j - 1])
                    /\ Len(u) >= j + 1
                    /\ u[j + 1] \in Words}
    IN  IF hits # {}
        THEN LET j == CHOOSE m \in hits : \A n \in hits : n <= m
             IN  [group1 |-> <<u[j + 1]>>]
        ELSE None

\* YOUTUBE_SHORTS_PATTERN.match(u): group 1, or None
YOUTUBE_SHORTS_PATTERN(u) ==
    LET i == AfterSchemeWww(u)
    IN  IF /\ StartsWithAt(u, i, <<"youtube.com", "/", "shorts/">>)
           /\ Len(u) >= i + 3
           /\ u[i + 3] \in Words
        THEN [group1 |-> <<u[i + 3]>>]
        ELSE None

\* clean_query that cuts at the first "&" only and keeps a fragment
clean_query_keeps_fragment(query) ==
    strip(Before(query, "&"))

\* YouTubeUtils.clean_query
clean_query(query) ==
    strip(Before(Before(query, "&"), "#"))

\* YouTubeUtils.is_valid_url
is_valid_url(url) ==
    IF url = None \/ url = [str |-> <<>>] THEN FALSE
    ELSE \/ YOUTUBE_VIDEO_PATTERN(url.str) # None
         \/ YOUTUBE_PLAYLIST_PATTERN(url.str) # None
         \/ YOUTUBE_SHORTS_PATTERN(url.str) # None

\* YouTubeUtils._extract_video_id
_extract_video_id(url) ==
    IF YOUTUBE_VIDEO_PATTERN(url) # None
    THEN [str |-> YOUTUBE_VIDEO_PATTERN(url).group1]
    ELSE IF YOUTUBE_SHORTS_PATTERN(url) # None
    THEN [str |-> YOUTUBE_SHORTS_PATTERN(url).group1]
    ELSE None

\* index of the first occurrence of the atoms t in s at or after i, 0 for none
RECURSIVE FindSubFrom(_, _, _)
FindSubFrom(s, t, i) ==
    IF i + Len(t) - 1 > Len(s) THEN 0
    ELSE IF StartsWithAt(s, i, t) THEN i
    ELSE FindSubFrom(s, t, i + 1)

\* t in s
Contains(s, t) == FindSubFrom(s, t, 1) # 0

\* s.split(t)[1], for s that contains t
SplitSecond(s, t) ==
    LET i == FindSubFrom(s, t, 1)
        rest == SubSeq(s, i + Len(t), Len(s))
        j == FindSubFrom(rest, t, 1)
    IN  IF j = 0 THEN rest ELSE SubSeq(rest, 1, j - 1)

WatchUrl(video_id) ==
    <<"https://", "www.", "youtube.com", "/", "watch", "?", "v=">> \o video_id

\* YouTubeUtils.normalize_youtube_url: a string, or None
normalize_youtube_url(url) ==
    IF url = <<>> THEN None
    ELSE IF Contains(url, <<"youtu.be", "/">>)
    THEN [str |-> WatchUrl(Before(Before(SplitSecond(url, <<"youtu.be", "/">>), "?"), "#"))]
    ELSE IF Contains(url, <<"youtube.com", "/", "shorts/">>)
    THEN [str |-> WatchUrl(Before(SplitSecond(url, <<"youtube.com", "/", "shorts/">>), "?"))]
    ELSE [str |-> url]

----------------------------------------------------------------------------
(* Durations. *)

Digits == {"0", "1", "2", "3", "4", "5", "6", "7", "8", "9"}

DigitVal(c) ==
    CASE c = "0" -> 0 [] c = "1" -> 1 [] c = "2" -> 2 [] c = "3" -> 3
      [] c = "4" -> 4 [] c = "5" -> 5 [] c = "6" -> 6 [] c = "7" -> 7
      [] c = "8" -> 8 [] c = "9" -> 9

RECURSIVE DigitsVal(_)
DigitsVal(s) ==
    IF s = <<>> THEN 0
    ELSE 10 * DigitsVal(SubSeq(s, 1, Len(s) - 1)) + DigitVal(s[Len(s)])

\* int(s): surrounding whitespace and one sign are accepted; [err |-> TRUE]
\* stands for ValueError
int(s) ==
    LET t == strip(s)
        neg == t # <<>> /\ Head(t) = "-"
        d == IF t # <<>> /\ Head(t) \in {"-", "+"} THEN Tail(t) ELSE t
    IN  IF d # <<>> /\ \A k \in 1..Len(d) : d[k] \in Digits
        THEN [val |-> IF neg THEN 0 - DigitsVal(d) ELSE DigitsVal(d)]
        ELSE [err |-> TRUE]

\* s.split(":")
RECURSIVE SplitColon(_)
SplitColon(s) ==
    IF Find(s, ":") = 0 THEN <<s>>
    ELSE <<Before(s, ":")>> \o SplitColon(After(s, ":"))

\* YouTubeUtils.duration_to_seconds on a string
duration_to_seconds(duration) ==
    IF duration = <<>> THEN 0
    ELSE LET parts == [k \in 1..Len(SplitColon(duration)) |-> int(SplitColon(duration)[k])]
         IN  IF \E k \in 1..Len(parts) : "err" \in DOMAIN parts[k] THEN 0
             ELSE IF Len(parts) = 3
             THEN parts[1].val * 3600 + parts[2].val * 60 + parts[3].val
             ELSE IF Len(parts) = 2 THEN parts[1].val * 60 + parts[2].val
             ELSE parts[1].val

\* YouTubeUtils.duration_to_seconds on an int: 0 is falsy, and any other int
\* has no split (AttributeError, caught)
duration_to_seconds_int(n) ==
    IF n = 0 THEN 0 ELSE 0

----------------------------------------------------------------------------
(* Track records.  A duration is a string [str |-> ...], a dict with          *)
(* secondsText, or an int [int |-> n].                                         *)

UnknownTitle == [str |-> "Unknown Title"]

\* the last thumbnail with a non-empty url, "" when there is none
RECURSIVE LastUrl(_)
LastUrl(thumbnails) ==
    IF thumbnails = <<>> THEN ""
    ELSE IF Get(thumbnails[Len(thumbnails)], "url", "") # ""
    THEN thumbnails[Len(thumbnails)].url
    ELSE LastUrl(SubSeq(thumbnails, 1, Len(thumbnails) - 1))

\* YouTubeUtils.format_track
format_track(track_data) ==
    LET d0 == Get(track_data, "duration", [str |-> <<"0", ":", "0", "0">>])
        seconds == IF "int" \in DOMAIN d0 THEN duration_to_seconds_int(d0.int)
                   ELSE IF "str" \in DOMAIN d0 THEN duration_to_seconds(d0.str)
                   ELSE duration_to_seconds(Get(d0, "secondsText", <<"0", ":", "0", "0">>))
    IN  [id |-> Get(track_data, "id", <<>>),
         name |-> Get(track_data, "title", UnknownTitle),
         duration |-> seconds,
         artist |-> Get(Get(track_data, "channel", <<>>), "name", "Unknown Artist"),
         cover |-> LastUrl(Get(track_data, "thumbnails", <<>>)),
         year |-> 0,
         url |-> WatchUrl(Get(track_data, "id", <<>>)),
         platform |-> "youtube"]

\* MusicTrack(**track): the record of the keyword arguments
MusicTrack(track) == track

\* PlatformTracks(tracks=...)
PlatformTracks(tracks) == [tracks |-> tracks]

\* track and track.get("id")
HasId(track) == HasValue(track, "id")

\* WithId with the filter lost
WithId_unfiltered(tracks) == tracks

\* [track for track in tracks if track and track.get("id")]
RECURSIVE WithId(_)
WithId(tracks) ==
    IF tracks = <<>> THEN <<>>
    ELSE IF HasId(Head(tracks)) THEN <<Head(tracks)>> \o WithId(Tail(tracks))
    ELSE WithId(Tail(tracks))

\* YouTubeUtils.create_platform_tracks
create_platform_tracks(data) ==
    IF ~Truthy(data) \/ ~HasValue(data, "results") THEN PlatformTracks(<<>>)
    ELSE PlatformTracks([k \in 1..Len(WithId(data.results)) |->
                            MusicTrack(WithId(data.results)[k])])

\* YouTubeUtils.create_track_info
create_track_info(track_data) ==
    [cdnurl |-> "None",
     key |-> "None",
     name |-> Get(track_data, "name", UnknownTitle),
     artist |-> Get(track_data, "artist", "Unknown Artist"),
     tc |-> Get(track_data, "id", <<>>),
     album |-> "YouTube",
     cover |-> Get(track_data, "cover", ""),
     lyrics |-> "None",
     duration |-> Get(track_data, "duration", 0),
     platform |-> "youtube",
     url |-> <<"https://", "youtube.com", "/", "watch", "?", "v=">> \o Get(track_data, "id", <<>>),
     year |-> Get(track_data, "year", 0)]

\* YouTubeUtils.fetch_oembed_data, given what make_request answered:
\* a payload dict, None, or Raised
fetch_oembed_data(url, data) ==
    IF data = Raised THEN Raised
    ELSE IF ~Truthy(data) THEN None
    ELSE IF Find(url, "v=") = 0 THEN Raised       \* url.split("v=")[1]: IndexError
    ELSE LET video_id == SplitSecond(url, <<"v=">>)
         IN  [results |-> <<[id |-> video_id,
                             name |-> Get(data, "title", None),
                             duration |-> 0,
                             artist |-> Get(data, "author_name", ""),
                             cover |-> Get(data, "thumbnail_url", ""),
                             year |-> 0,
                             url |-> WatchUrl(video_id),
                             platform |-> "youtube"]>>]

----------------------------------------------------------------------------
(* The inputs of the resolution operations and the answers of the upstream *)
(* sources.                                                                *)

QueryId == "dQw4w9WgXcQ"

UrlHeads == {<<"https://", "www.">>, <<>>}

UrlBodies ==
    {<<"youtube.com", "/", "watch", "?", "v=", QueryId>>,
     <<"music.", "youtube.com", "/", "watch", "?", "v=", QueryId>>,
     <<"youtu.be", "/", QueryId>>,
     <<"youtube.com", "/", "shorts/", QueryId>>,
     <<"youtube.com", "/", "embed/", QueryId>>,
     <<"youtube.com", "/", "v/", QueryId>>,
     <<"youtube.com", "/", "playlist", "?", "list=", "PLx">>,
     <<"youtube.com", "/", "watch", "?", "list=", "PLx", "&", "v=", QueryId>>,
     <<"example.com", "/", "page">>}

UrlTails ==
    {<<>>, <<"&", "list=", "PLx">>, <<"?", "si=", "x">>, <<"#", "x">>}

FreeTexts ==
    {<<>>, <<" ">>, <<"song">>, <<"song", " ", "name">>, <<"song", "&", "name">>,
     <<QueryId>>}

\* what a caller hands to YouTubeData(query)
Queries ==
    {None}
    \cup {[str |-> h \o b \o t] : h \in UrlHeads, b \in UrlBodies, t \in UrlTails}
    \cup {[str |-> f] : f \in FreeTexts}

\* entries of the search source and of the collection source:
\* {id, title, channel.name, duration, thumbnails[]}, any of them missing
Videos ==
    {[id |-> <<"dQw4w9WgXcQ">>, title |-> [str |-> "T1"], channel |-> [name |-> "C1"],
      duration |-> [str |-> <<"3", ":", "0", "5">>],
      thumbnails |-> <<[url |-> "lo"], [url |-> "hi"]>>],
     [id |-> <<"abcdefghijk">>],
     [title |-> [str |-> "T2"], channel |-> [name |-> "C2"],
      duration |-> [str |-> <<"4", "5">>]],
     [id |-> <<>>, title |-> [str |-> "T3"]]}

\* lists of at most n entries
Lists(n) == UNION {[1..k -> Videos] : k \in 0..n}

\* what HttpxClient().make_request answers for the oEmbed url
OembedAnswers ==
    {None, Raised,
     [title |-> [str |-> "T0"], author_name |-> "A0", thumbnail_url |-> "th0"],
     [thumbnail_url |-> "th0"]}

\* what VideosSearch(q, limit=n).next() answers
SearchAnswers(n) ==
    {None, Raised} \cup {[result |-> l] : l \in Lists(n)}

\* what Playlist.getVideos(url) answers
PlaylistAnswers ==
    {None, Raised} \cup {[videos |-> l] : l \in Lists(MaxEntries)}

----------------------------------------------------------------------------
(* YouTubeData: the code between two awaits. *)

\* [f(x) for x in l]
FormatAll(l) == [k \in 1..Len(l) |-> format_track(l[k])]

\* YouTubeData._get_playlist_data, given what Playlist.getVideos answered
_get_playlist_data(playlist) ==
    IF playlist = Raised THEN None                          \* except Exception
    ELSE IF ~Truthy(playlist) \/ ~HasValue(playlist, "videos") THEN None
    ELSE [results |-> FormatAll(WithId(playlist.videos))]

\* YouTubeData._get_video_data after the oEmbed lookup gave nothing, given what
\* VideosSearch(normalized_url, limit=1).next() answered
_get_video_data(results) ==
    IF results = Raised THEN None                           \* except Exception
    ELSE IF ~Truthy(results) \/ ~HasValue(results, "result") THEN None
    ELSE [results |-> <<format_track(results.result[1])>>]

\* YouTubeData._fetch_data: the value of the branch, or None when it raised
_fetch_data(branch) ==
    IF branch = Raised THEN None ELSE branch

\* YouTubeData.get_info after _fetch_data returned
get_info(data) ==
    IF Truthy(data) THEN create_platform_tracks(data) ELSE None

\* search with the try/except lost: the exception reaches the caller
search_no_except(results) ==
    IF results = Raised THEN Raised
    ELSE IF ~Truthy(results) \/ ~HasValue(results, "result") THEN None
    ELSE PlatformTracks([k \in 1..Len(results.result) |->
                            MusicTrack(format_track(results.result[k]))])

\* search with the test for an empty result list lost
search_no_empty_test(results) ==
    IF results = Raised THEN None
    ELSE IF ~Truthy(results) THEN None
    ELSE PlatformTracks([k \in 1..Len(results.result) |->
                            MusicTrack(format_track(results.result[k]))])

\* YouTubeData.search on a free-text query, given what
\* VideosSearch(self.query, limit=5).next() answered
search(results) ==
    IF results = Raised THEN None                           \* except Exception
    ELSE IF ~Truthy(results) \/ ~HasValue(results, "result") THEN None
    ELSE PlatformTracks([k \in 1..Len(results.result) |->
                            MusicTrack(format_track(results.result[k]))])

\* YouTubeData.get_track after _fetch_data returned
get_track(data) ==
    IF ~Truthy(data) \/ ~HasValue(data, "results") THEN None
    ELSE create_track_info(data.results[1])

\* the url get_track fetches for self.query
TrackUrl(query) ==
    IF query # <<>> /\ Head(query) \in Schemes THEN query
    ELSE <<"https://", "youtube.com", "/", "watch", "?", "v=">> \o query

----------------------------------------------------------------------------
(* Resolution: get_info, search and get_track as steps between awaits. *)

RsReturn(value) ==
    /\ rs_result' = value
    /\ rs_pc' = "done"
    /\ rs_url' = <<>>

\* _fetch_data returned data to the operation in progress
RsFetched(op, data) ==
    RsReturn(IF op = "get_track" THEN get_track(data) ELSE get_info(data))

\* _fetch_data(url) up to its first await
RsFetch(op, url) ==
    IF YOUTUBE_PLAYLIST_PATTERN(url) # None
    THEN /\ rs_pc' = "playlist"
         /\ rs_url' = url
         /\ rs_result' = None
    ELSE IF normalize_youtube_url(url) = None
    THEN RsFetched(op, _fetch_data(None))
    ELSE /\ rs_pc' = "oembed"
         /\ rs_url' = normalize_youtube_url(url).str
         /\ rs_result' = None

\* YouTubeData(query)
NewQuery(raw) ==
    IF raw = None \/ raw.str = <<>> THEN None ELSE [str |-> clean_query(raw.str)]

Falsy(query) == query = None \/ query.str = <<>>

CallGetInfo(raw) ==
    /\ rs_pc = "idle"
    /\ rs_op' = "get_info"
    /\ rs_raw' = raw
    /\ rs_query' = NewQuery(raw)
    /\ rs_calls' = <<>>
    /\ IF Falsy(NewQuery(raw)) \/ ~is_valid_url(NewQuery(raw))
       THEN RsReturn(None)
       ELSE RsFetch("get_info", NewQuery(raw).str)
    /\ UNCHANGED <<config, rest_vars, dl_vars>>

CallSearch(raw) ==
    /\ rs_pc = "idle"
    /\ rs_op' = "search"
    /\ rs_raw' = raw
    /\ rs_query' = NewQuery(raw)
    /\ rs_calls' = <<>>
    /\ IF Falsy(NewQuery(raw))
       THEN RsReturn(None)
       ELSE IF is_valid_url(NewQuery(raw))
       THEN RsFetch("search", NewQuery(raw).str)
       ELSE /\ rs_pc' = "videos_search"
            /\ rs_url' = NewQuery(raw).str
            /\ rs_result' = None
    /\ UNCHANGED <<config, rest_vars, dl_vars>>

CallGetTrack(raw) ==
    /\ rs_pc = "idle"
    /\ rs_op' = "get_track"
    /\ rs_raw' = raw
    /\ rs_query' = NewQuery(raw)
    /\ rs_calls' = <<>>
    /\ IF Falsy(NewQuery(raw))
       THEN RsReturn(None)
       ELSE RsFetch("get_track", TrackUrl(NewQuery(raw).str))
    /\ UNCHANGED <<config, rest_vars, dl_vars>>

Called(src, arg, resp) == [src |-> src, arg |-> arg, resp |-> resp]

\* the oEmbed request of fetch_oembed_data is answered
OembedAnswered(data) ==
    /\ rs_pc = "oembed"
    /\ rs_calls' = Append(rs_calls, Called("oembed", rs_url, data))
    /\ IF fetch_oembed_data(rs_url, data) = Raised
       THEN RsFetched(rs_op, _fetch_data(Raised))
       ELSE IF Truthy(fetch_oembed_data(rs_url, data))
       THEN RsFetched(rs_op, _fetch_data(fetch_oembed_data(rs_url, data)))
       ELSE /\ rs_pc' = "url_search"
            /\ UNCHANGED <<rs_url, rs_result>>
    /\ UNCHANGED <<config, rest_vars, rs_op, rs_raw, rs_query, dl_vars>>

\* VideosSearch(normalized_url, limit=1).next() is answered
UrlSearchAnswered(results) ==
    /\ rs_pc = "url_search"
    /\ rs_calls' = Append(rs_calls, Called("search", rs_url, results))
    /\ RsFetched(rs_op, _fetch_data(_get_video_data(results)))
    /\ UNCHANGED <<config, rest_vars, rs_op, rs_raw, rs_query, dl_vars>>

\* Playlist.getVideos(url) is answered
PlaylistAnswered(playlist) ==
    /\ rs_pc = "playlist"
    /\ rs_calls' = Append(rs_calls, Called("playlist", rs_url, playlist))
    /\ RsFetched(rs_op, _fetch_data(_get_playlist_data(playlist)))
    /\ UNCHANGED <<config, rest_vars, rs_op, rs_raw, rs_query, dl_vars>>

\* VideosSearch(self.query, limit=5).next() is answered
VideosSearchAnswered(results) ==
    /\ rs_pc = "videos_search"
    /\ rs_calls' = Append(rs_calls, Called("search", rs_url, results))
    /\ RsReturn(search(results))
    /\ UNCHANGED <<config, rest_vars, rs_op, rs_raw, rs_query, dl_vars>>

\* the caller takes the result; the object is dropped
RsDone ==
    /\ rs_pc = "done"
    /\ rs_pc' = "idle"
    /\ rs_op' = "none"
    /\ rs_raw' = None
    /\ rs_query' = None
    /\ rs_calls' = <<>>
    /\ rs_result' = None
    /\ UNCHANGED <<config, rest_vars, rs_url, dl_vars>>

----------------------------------------------------------------------------
(* The configuration, the inputs of download_track and the answers of the *)
(* hosted API, the credential pool and the extractor subprocess.          *)

\* src.config: an unset value is the empty string
Configs ==
    [API_URL1 : {"", "https://api/audio?id="},
     API_URL2 : {"", "https://api/video?id="},
     PROXY : {"", "socks5://proxy"}]

\* what the 'cookies' directory may hold when get_cookie_file looks
CookieDirs ==
    {[exists |-> FALSE, files |-> {}],
     [exists |-> TRUE, files |-> {}],
     [exists |-> TRUE, files |-> {"notes.md"}],
     [exists |-> TRUE, files |-> {"a.txt", "b.txt", "notes.md"}]}

\* f.endswith(".txt")
EndsWithTxt(f) == f \in {"a.txt", "b.txt"}

\* the track argument: a TrackInfo (its tc), or None
Tracks == {None} \cup {[tc |-> <<v>>] : v \in VideoIds}

\* what make_request answers for the video endpoint
\* (a JSON object, a JSON array, nothing, or the request raises)
ApiAnswers ==
    {None, Raised,
     [json_array |-> <<"error">>],
     [download_url |-> <<"https://cdn/file">>],
     [download_url |-> <<>>],
     [status |-> "error"]}

\* how download_file ends: it raises, or gives a DownloadResult with this success
DownloadAnswers == {Raised, [success |-> FALSE], [success |-> TRUE]}

\* the characters the subprocess may print
StdoutChars == {" ", "\n", "f"}

Stdouts == UNION {[1..k -> StdoutChars] : k \in 0..MaxStdout}

ReturnCodes == {0, 1}

\* what random.choice(cookies_files) may give: get_cookie_file's values
CookieFiles(cookies) ==
    LET cookies_files == {f \in cookies.files : EndsWithTxt(f)}
    IN  IF ~cookies.exists THEN {None}
        ELSE IF cookies_files = {} THEN {None}
        ELSE {[str |-> <<"cookies", "/", f>>] : f \in cookies_files}

----------------------------------------------------------------------------
(* YouTubeUtils and YouTubeData: acquisition, the code between two awaits. *)

\* HostedConfigured with the test of the configuration lost
HostedConfigured_always(cfg) == TRUE

\* `if API_URL1 or API_URL2` of download_track
HostedConfigured(cfg) == cfg.API_URL1 # "" \/ cfg.API_URL2 # ""

\* api_endpoint of download_with_api
api_endpoint(cfg, video_id, is_video) ==
    IF is_video THEN <<cfg.API_URL2>> \o video_id \o <<"&format=4k">>
    ELSE <<cfg.API_URL1>> \o video_id

\* Path(DOWNLOADS_DIR) / f"{video_id}.mp3"
Mp3Path(video_id) == [path |-> <<"downloads", "/">> \o video_id \o <<".mp3">>]

\* where download_file puts a file it is given no file_path for
Mp4Path == [path |-> <<"downloads", "/", "file.mp4">>]

\* the DownloadResult of download_file: file_path is the path asked for
DownloadResult(dl, file_path) ==
    IF dl = Raised THEN Raised
    ELSE [success |-> dl.success,
          file_path |-> IF dl.success THEN file_path ELSE None]

\* download_with_api, video mode, given what make_request answered:
\* the dl_url to fetch next, or the value the tier returns
download_url(public_url) ==
    IF public_url = Raised THEN [ret |-> Raised]
    ELSE IF ~Truthy(public_url) THEN [ret |-> None]
    ELSE IF "json_array" \in DOMAIN public_url
    THEN [ret |-> Raised]                  \* a list has no .get: AttributeError
    ELSE IF ~HasValue(public_url, "download_url") THEN [ret |-> None]
    ELSE [dl_url |-> public_url.download_url]

\* download_with_api, given what download_file answered
download_with_api(dl) ==
    IF dl = Raised THEN Raised
    ELSE IF ~dl.success THEN None
    ELSE dl.file_path

\* download_track that does not return the path of the hosted tier
download_track_no_return(file_path) ==
    IF file_path = Raised THEN [ret |-> None] ELSE [next |-> "yt_dlp"]

\* download_track after download_with_api returned file_path (or raised):
\* the value to return, or the fall through to download_with_yt_dlp
download_track(file_path) ==
    IF file_path = Raised THEN [ret |-> None]               \* except Exception
    ELSE IF file_path # None THEN [ret |-> file_path]
    ELSE [next |-> "yt_dlp"]

\* ProxyOrCookies that does not look at PROXY
ProxyOrCookies_ignores_proxy(cfg, cookie_file) ==
    IF cookie_file # None THEN <<"--cookies">> \o cookie_file.str ELSE <<>>

\* the proxy or cookies flags of ytdlp_params
ProxyOrCookies(cfg, cookie_file) ==
    IF cfg.PROXY # "" THEN <<"--proxy", cfg.PROXY>>
    ELSE IF cookie_file # None THEN <<"--cookies">> \o cookie_file.str
    ELSE <<>>

\* download_with_yt_dlp that trusts the exit code alone
download_with_yt_dlp_exit_code_only(returncode, stdout) ==
    IF returncode # 0 THEN None ELSE [path |-> strip(stdout)]

\* download_with_yt_dlp, given what proc.communicate() gave
download_with_yt_dlp(returncode, stdout) ==
    IF returncode # 0 THEN None
    ELSE IF strip(stdout) = <<>> THEN None
    ELSE [path |-> strip(stdout)]

----------------------------------------------------------------------------
(* Acquisition: download_track as steps between awaits. *)

Tier(name, video_id, video, ret) ==
    [tier |-> name, video_id |-> video_id, video |-> video, ret |-> ret]

Pending == [tag |-> "Pending"]

\* the last tier entered returned ret
TierReturned(ret) ==
    [dl_tiers EXCEPT ![Len(dl_tiers)].ret = ret]

DlReturn(value) ==
    /\ dl_result' = value
    /\ dl_pc' = "done"
    /\ dl_url' = <<>>

\* download_with_api up to its first await
DlEnterApi(track, video) ==
    /\ dl_tiers' = <<Tier("api", track.tc, video, Pending)>>
    /\ dl_pc' = IF video THEN "api_request" ELSE "api_download"
    /\ dl_url' = api_endpoint(config, track.tc, video)
    /\ dl_result' = None
    /\ dl_params' = <<>>

\* download_with_yt_dlp up to its first await
DlEnterYtDlp(tiers, track, video) ==
    /\ dl_tiers' = Append(tiers, Tier("yt_dlp", track.tc, video, Pending))
    /\ dl_url' = WatchUrl(track.tc)
    /\ dl_result' = None
    /\ IF config.PROXY # ""
       THEN /\ dl_pc' = "spawn"
            /\ dl_params' = ProxyOrCookies(config, None)
       ELSE /\ dl_pc' = "cookie"
            /\ dl_params' = <<>>

CallDownloadTrack(track, video) ==
    /\ dl_pc = "idle"
    /\ dl_track' = track
    /\ dl_video' = video
    /\ dl_calls' = <<>>
    /\ dl_proc' = "none"
    /\ IF track = None
       THEN /\ DlReturn(None)
            /\ dl_tiers' = <<>>
            /\ dl_params' = <<>>
       ELSE IF HostedConfigured(config)
       THEN DlEnterApi(track, video)
       ELSE DlEnterYtDlp(<<>>, track, video)
    /\ UNCHANGED <<config, rest_vars, rs_vars>>

\* download_with_api returned file_path (or raised) to download_track
DlApiReturned(file_path) ==
    IF "ret" \in DOMAIN download_track(file_path)
    THEN /\ DlReturn(download_track(file_path).ret)
         /\ dl_tiers' = TierReturned(file_path)
         /\ UNCHANGED dl_params
    ELSE DlEnterYtDlp(TierReturned(file_path), dl_track, dl_video)

\* make_request(api_endpoint) of the video mode is answered
ApiRequestAnswered(public_url) ==
    /\ dl_pc = "api_request"
    /\ dl_calls' = Append(dl_calls, Called("make_request", dl_url, public_url))
    /\ IF "dl_url" \in DOMAIN download_url(public_url)
       THEN /\ dl_pc' = "api_download"
            /\ dl_url' = download_url(public_url).dl_url
            /\ UNCHANGED <<dl_tiers, dl_params, dl_result>>
       ELSE DlApiReturned(download_url(public_url).ret)
    /\ UNCHANGED <<config, rest_vars, rs_vars, dl_track, dl_video, dl_proc>>

\* download_file(...) of either mode is answered
ApiDownloadAnswered(dl) ==
    /\ dl_pc = "api_download"
    /\ LET result == DownloadResult(dl, IF dl_video THEN Mp4Path ELSE Mp3Path(dl_track.tc))
       IN  /\ dl_calls' = Append(dl_calls, Called("download_file", dl_url, result))
           /\ DlApiReturned(download_with_api(result))
    /\ UNCHANGED <<config, rest_vars, rs_vars, dl_track, dl_video, dl_proc>>

\* get_cookie_file() found the directory as cookies and returned cookie_file
CookieFileChosen(cookies, cookie_file) ==
    /\ dl_pc = "cookie"
    /\ cookie_file \in CookieFiles(cookies)
    /\ dl_pc' = "spawn"
    /\ dl_params' = ProxyOrCookies(config, cookie_file)
    /\ dl_calls' = Append(dl_calls, Called("get_cookie_file", cookies, cookie_file))
    /\ UNCHANGED <<config, rest_vars, rs_vars, dl_track, dl_video, dl_url, dl_proc, dl_tiers, dl_result>>

\* asyncio.create_subprocess_exec(*ytdlp_params) started the subprocess
SubprocessStarted ==
    /\ dl_pc = "spawn"
    /\ dl_pc' = "communicate"
    /\ dl_proc' = "running"
    /\ dl_calls' = Append(dl_calls,
           Called("create_subprocess_exec", dl_params \o dl_url, [started |-> TRUE]))
    /\ UNCHANGED <<config, rest_vars, rs_vars, dl_track, dl_video, dl_url, dl_params, dl_tiers, dl_result>>

\* asyncio.create_subprocess_exec(*ytdlp_params) raised
SubprocessFailed ==
    /\ dl_pc = "spawn"
    /\ dl_calls' = Append(dl_calls,
           Called("create_subprocess_exec", dl_params \o dl_url, Raised))
    /\ dl_tiers' = TierReturned(None)                       \* except Exception
    /\ DlReturn(None)
    /\ UNCHANGED <<config, rest_vars, rs_vars, dl_track, dl_video, dl_params, dl_proc>>

\* the subprocess exited and proc.communicate() returned
SubprocessExited(returncode, stdout) ==
    /\ dl_pc = "communicate"
    /\ dl_proc' = "exited"
    /\ dl_calls' = Append(dl_calls,
           Called("communicate", dl_url, [returncode |-> returncode, stdout |-> stdout]))
    /\ dl_tiers' = TierReturned(download_with_yt_dlp(returncode, stdout))
    /\ DlReturn(download_with_yt_dlp(returncode, stdout))
    /\ UNCHANGED <<config, rest_vars, rs_vars, dl_track, dl_video, dl_params>>

\* proc.communicate() raised
CommunicateFailed(proc) ==
    /\ dl_pc = "communicate"
    /\ dl_proc' = proc
    /\ dl_calls' = Append(dl_calls, Called("communicate", dl_url, Raised))
    /\ dl_tiers' = TierReturned(None)                       \* except Exception
    /\ DlReturn(None)
    /\ UNCHANGED <<config, rest_vars, rs_vars, dl_track, dl_video, dl_params>>

\* the caller takes the result
DlDone ==
    /\ dl_pc = "done"
    /\ dl_pc' = "idle"
    /\ dl_track' = None
    /\ dl_video' = FALSE
    /\ dl_params' = <<>>
    /\ dl_proc' = "none"
    /\ dl_tiers' = <<>>
    /\ dl_calls' = <<>>
    /\ dl_result' = None
    /\ UNCHANGED <<config, rest_vars, rs_vars, dl_url>>

----------------------------------------------------------------------------
(* Cancellation of download_track by its caller. *)

Cancelled == [tag |-> "Cancelled"]

\* the awaits of download_track
DlAwaits == {"api_request", "api_download", "cookie", "spawn", "communicate"}

\* the caller cancels the task: CancelledError is raised at the pending await.
\* It is a BaseException, so neither `except asyncio.TimeoutError` nor
\* `except Exception` of download_with_yt_dlp or download_track handles it, and
\* no handler or finally touches proc.
CancelDownload ==
    /\ dl_pc \in DlAwaits
    /\ dl_pc' = "cancelled"
    /\ dl_result' = Cancelled
    /\ dl_tiers' = TierReturned(Cancelled)
    /\ UNCHANGED <<config, rest_vars, rs_vars, dl_track, dl_video, dl_url, dl_params,
                   dl_proc, dl_calls>>

\* the subprocess nobody waits for any more runs to its end
OrphanExited ==
    /\ dl_pc = "cancelled"
    /\ dl_proc = "running"
    /\ dl_proc' = "exited"
    /\ UNCHANGED <<config, rest_vars, rs_vars, dl_track, dl_video, dl_pc, dl_url,
                   dl_params, dl_tiers, dl_calls, dl_result>>

\* the caller drops the cancelled task and may call again
DlAbandoned ==
    /\ dl_pc = "cancelled"
    /\ dl_proc # "running"
    /\ dl_pc' = "idle"
    /\ dl_track' = None
    /\ dl_video' = FALSE
    /\ dl_params' = <<>>
    /\ dl_proc' = "none"
    /\ dl_tiers' = <<>>
    /\ dl_calls' = <<>>
    /\ dl_result' = None
    /\ UNCHANGED <<config, rest_vars, rs_vars, dl_url>>

----------------------------------------------------------------------------
(* Two callers of download_track for one track id.  Both tiers write into the *)
(* downloads directory at a path derived from the id and the mode.            *)

Callers == {1, 2}

\* the track both calls are about
SharedTrack == [tc |-> <<QueryId>>]

\* "-o" output_template with "--no-part": the extractor writes to the final
\* path, which it prints after the move
ExtractedPath(video) ==
    [path |-> <<"downloads", "/", QueryId, IF video THEN ".mp4" ELSE ".m4a">>]

Paths == {Mp3Path(SharedTrack.tc), Mp4Path, ExtractedPath(TRUE), ExtractedPath(FALSE)}

NoFile == [content |-> "absent", writers |-> {}]

\* caller c opens the file at path p for writing
StartWrite(files, c, p) ==
    [files EXCEPT ![p] = [content |-> "partial", writers |-> @.writers \cup {c}]]

\* the transfer of caller c into p ended with all bytes written
FinishWrite(files, c, p) ==
    IF c \notin files[p].writers THEN files
    ELSE [files EXCEPT ![p] =
             [content |-> IF @.writers = {c} THEN "complete" ELSE "partial",
              writers |-> @.writers \ {c}]]

\* the transfer of caller c into p broke off
AbortWrite(files, c, p) ==
    [files EXCEPT ![p].writers = @ \ {c}]

CcFrame == <<config, rs_vars, dl_vars, fn_vars, dv_vars>>

\* the call of c returns value; a path is seen as the directory has it then
CcReturn(c, value, files) ==
    /\ cc_pc' = [cc_pc EXCEPT ![c] = "done"]
    /\ cc_result' = [cc_result EXCEPT ![c] = value]
    /\ cc_files' = files
    /\ cc_seen' = [cc_seen EXCEPT ![c] =
           IF value \in Paths THEN [tier |-> IF cc_pc[c] = "communicate" THEN "yt_dlp" ELSE "api",
                                     file |-> files[value]]
           ELSE None]

\* download_with_yt_dlp up to its first await
CcEnterYtDlp(c, files) ==
    /\ cc_pc' = [cc_pc EXCEPT ![c] = IF config.PROXY # "" THEN "spawn" ELSE "cookie"]
    /\ cc_files' = files
    /\ UNCHANGED <<cc_result, cc_seen>>

\* download_with_api returned file_path (or raised) to download_track
CcApiReturned(c, file_path, files) ==
    IF "ret" \in DOMAIN download_track(file_path)
    THEN CcReturn(c, download_track(file_path).ret, files)
    ELSE CcEnterYtDlp(c, files)

\* download_track(track, video) of caller c, for the mode of the call in progress
CcCallDownloadTrack(c, video) ==
    /\ cc_pc[c] = "idle"
    /\ \A o \in Callers : cc_pc[o] # "idle" => cc_video[o] = video
    /\ cc_video' = [cc_video EXCEPT ![c] = video]
    /\ IF ~HostedConfigured(config) THEN CcEnterYtDlp(c, cc_files)
       ELSE IF video
       THEN /\ cc_pc' = [cc_pc EXCEPT ![c] = "api_request"]
            /\ UNCHANGED <<cc_result, cc_files, cc_seen>>
       ELSE /\ cc_pc' = [cc_pc EXCEPT ![c] = "api_download"]
            /\ cc_files' = StartWrite(cc_files, c, Mp3Path(SharedTrack.tc))
            /\ UNCHANGED <<cc_result, cc_seen>>
    /\ UNCHANGED CcFrame

\* the path download_file of caller c writes to
ApiPath(c) == IF cc_video[c] THEN Mp4Path ELSE Mp3Path(SharedTrack.tc)

\* make_request(api_endpoint) of caller c is answered
CcApiRequestAnswered(c, public_url) ==
    /\ cc_pc[c] = "api_request"
    /\ IF "dl_url" \in DOMAIN download_url(public_url)
       THEN /\ cc_pc' = [cc_pc EXCEPT ![c] = "api_download"]
            /\ cc_files' = StartWrite(cc_files, c, Mp4Path)
            /\ UNCHANGED <<cc_result, cc_seen>>
       ELSE CcApiReturned(c, download_url(public_url).ret, cc_files)
    /\ UNCHANGED <<CcFrame, cc_video>>

\* download_file(...) of caller c is answered
CcApiDownloadAnswered(c, dl) ==
    /\ cc_pc[c] = "api_download"
    /\ LET result == DownloadResult(dl, ApiPath(c))
           files == IF dl # Raised /\ dl.success
                    THEN FinishWrite(cc_files, c, ApiPath(c))
                    ELSE AbortWrite(cc_files, c, ApiPath(c))
       IN  CcApiReturned(c, download_with_api(result), files)
    /\ UNCHANGED <<CcFrame, cc_video>>

\* get_cookie_file() of caller c returned
CcCookieFileChosen(c) ==
    /\ cc_pc[c] = "cookie"
    /\ cc_pc' = [cc_pc EXCEPT ![c] = "spawn"]
    /\ UNCHANGED <<CcFrame, cc_video, cc_result, cc_files, cc_seen>>

\* the subprocess of caller c started.  It writes to the final path; a file it
\* finds there may be taken as downloaded already (writes = FALSE).
CcSubprocessStarted(c, writes) ==
    /\ cc_pc[c] = "spawn"
    /\ cc_files[ExtractedPath(cc_video[c])].content = "absent" => writes
    /\ cc_pc' = [cc_pc EXCEPT ![c] = "communicate"]
    /\ cc_files' = IF writes THEN StartWrite(cc_files, c, ExtractedPath(cc_video[c]))
                   ELSE cc_files
    /\ UNCHANGED <<CcFrame, cc_video, cc_result, cc_seen>>

\* asyncio.create_subprocess_exec of caller c raised
CcSubprocessFailed(c) ==
    /\ cc_pc[c] = "spawn"
    /\ CcReturn(c, None, cc_files)
    /\ UNCHANGED <<CcFrame, cc_video>>

\* the subprocess of caller c exited and proc.communicate() returned
CcSubprocessExited(c, returncode, stdout) ==
    /\ cc_pc[c] = "communicate"
    /\ LET p == ExtractedPath(cc_video[c])
           files == IF returncode = 0 THEN FinishWrite(cc_files, c, p)
                    ELSE AbortWrite(cc_files, c, p)
       IN  CcReturn(c, download_with_yt_dlp(returncode, stdout), files)
    /\ UNCHANGED <<CcFrame, cc_video>>

\* proc.communicate() of caller c raised
CcCommunicateFailed(c) ==
    /\ cc_pc[c] = "communicate"
    /\ CcReturn(c, None, AbortWrite(cc_files, c, ExtractedPath(cc_video[c])))
    /\ UNCHANGED <<CcFrame, cc_video>>

----------------------------------------------------------------------------
(* The developer commands of src/src/modules/devs.py.  Each handler runs on *)
(* one incoming message, from its sender test to its last reply.            *)

\* incoming messages: from the owner (1), a developer (2) or anybody else
\* (3), with the text after the command, "" when there is none
Messages ==
    [from_id : {1, 2, 3},
     command : {"eval", "activevc", "logger", "autoend", "clearass", "logs"},
     args : {"", "on", "ON", "enable", "enabled", "off", "disable", "disabled", "1+1"}]

\* str.lower()
lower(a) == IF a = "ON" THEN "on" ELSE a

\* IsDev that lets every sender pass
IsDev_anyone(cfg, from_id) == TRUE

\* `message.from_id not in DEVS`, negated
IsDev(cfg, from_id) == from_id \in cfg.DEVS

\* the handler of message ends with these settings stored, having done effects
Handled(message, stored, effects) ==
    /\ dv_msg' = message
    /\ dv_before' = dv_stored
    /\ dv_stored' = stored
    /\ dv_effects' = effects
    /\ UNCHANGED <<config, rs_vars, dl_vars, fn_vars, cc_vars, dv_config>>

\* exec_eval
exec_eval(m) ==
    /\ m.command = "eval"
    /\ IF m.from_id # dv_config.OWNER_ID THEN Handled(m, dv_stored, {})
       ELSE IF m.args = "" THEN Handled(m, dv_stored, {"reply_text"})
       ELSE Handled(m, dv_stored, {"meval", "reply_text"})

\* active_vc
active_vc(message) ==
    /\ message.command = "activevc"
    /\ IF ~IsDev(dv_config, message.from_id) THEN Handled(message, dv_stored, {"del_msg"})
       ELSE Handled(message, dv_stored, {"reply_text"})

\* logger
logger(message) ==
    /\ message.command = "logger"
    /\ IF ~IsDev(dv_config, message.from_id) THEN Handled(message, dv_stored, {"del_msg"})
       ELSE IF dv_config.LOGGER_ID = 0 THEN Handled(message, dv_stored, {"reply_text"})
       ELSE IF message.args = "" THEN Handled(message, dv_stored, {"reply_text"})
       ELSE IF lower(message.args) \in {"on", "enable"}
       THEN Handled(message, [dv_stored EXCEPT !.logger = TRUE], {"reply_text"})
       ELSE IF lower(message.args) \in {"off", "disable"}
       THEN Handled(message, [dv_stored EXCEPT !.logger = FALSE], {"reply_text"})
       ELSE Handled(message, dv_stored, {"reply_text"})

\* auto_end
auto_end(message) ==
    /\ message.command = "autoend"
    /\ IF ~IsDev(dv_config, message.from_id) THEN Handled(message, dv_stored, {"del_msg"})
       ELSE IF message.args = "" THEN Handled(message, dv_stored, {"reply_text"})
       ELSE IF lower(message.args) \in {"on", "enabled"}
       THEN Handled(message, [dv_stored EXCEPT !.auto_end = TRUE], {"reply_text"})
       ELSE IF lower(message.args) \in {"off", "disabled"}
       THEN Handled(message, [dv_stored EXCEPT !.auto_end = FALSE], {"reply_text"})
       ELSE Handled(message, dv_stored, {"reply_text"})

\* clear_all_assistants
clear_all_assistants(message) ==
    /\ message.command = "clearass"
    /\ IF ~IsDev(dv_config, message.from_id) THEN Handled(message, dv_stored, {"del_msg"})
       ELSE Handled(message, [dv_stored EXCEPT !.assistants = {}], {"reply_text"})

\* logs
logs(message) ==
    /\ message.command = "logs"
    /\ IF ~IsDev(dv_config, message.from_id) THEN Handled(message, dv_stored, {"del_msg"})
       ELSE Handled(message, dv_stored, {"reply_document:bot.log"})

----------------------------------------------------------------------------
(* Specifications. *)

\* nothing is in progress
Idle ==
    /\ rs_op = "none"
    /\ rs_raw = None
    /\ rs_query = None
    /\ rs_url = <<>>
    /\ rs_pc = "idle"
    /\ rs_calls = <<>>
    /\ rs_result = None
    /\ dl_track = None
    /\ dl_video = FALSE
    /\ dl_pc = "idle"
    /\ dl_url = <<>>
    /\ dl_params = <<>>
    /\ dl_proc = "none"
    /\ dl_tiers = <<>>
    /\ dl_calls = <<>>
    /\ dl_result = None
    /\ fn_op = <<>>
    /\ fn_ret = None
    /\ cc_video = [c \in Callers |-> FALSE]
    /\ cc_pc = [c \in Callers |-> "idle"]
    /\ cc_result = [c \in Callers |-> None]
    /\ cc_files = [p \in Paths |-> NoFile]
    /\ cc_seen = [c \in Callers |-> None]
    /\ dv_before = dv_stored
    /\ dv_msg = None
    /\ dv_effects = {}

\* no developer and no logger chat configured, nothing stored
NoDevs ==
    /\ dv_config = [OWNER_ID |-> 1, DEVS |-> {}, LOGGER_ID |-> 0]
    /\ dv_stored = [logger |-> FALSE, auto_end |-> FALSE, assistants |-> {}]

NoConfig == [API_URL1 |-> "", API_URL2 |-> "", PROXY |-> ""]

Init ==
    /\ config \in Configs
    /\ NoDevs
    /\ Idle
    /\ fn_arg = None

\* the resolution operations read no configuration
InitResolve ==
    /\ Init
    /\ config = NoConfig

NextResolve ==
    \/ \E raw \in Queries : CallGetInfo(raw)
    \/ \E raw \in Queries : CallSearch(raw)
    \/ \E raw \in Queries : CallGetTrack(raw)
    \/ \E data \in OembedAnswers : OembedAnswered(data)
    \/ \E results \in SearchAnswers(1) : UrlSearchAnswered(results)
    \/ \E playlist \in PlaylistAnswers : PlaylistAnswered(playlist)
    \/ \E results \in SearchAnswers(MaxEntries) : VideosSearchAnswered(results)
    \/ RsDone

NextDownload ==
    \/ \E track \in Tracks, video \in BOOLEAN : CallDownloadTrack(track, video)
    \/ \E public_url \in ApiAnswers : ApiRequestAnswered(public_url)
    \/ \E dl \in DownloadAnswers : ApiDownloadAnswered(dl)
    \/ \E cookies \in CookieDirs :
          \E cookie_file \in CookieFiles(cookies) : CookieFileChosen(cookies, cookie_file)
    \/ SubprocessStarted
    \/ SubprocessFailed
    \/ \E returncode \in ReturnCodes, stdout \in Stdouts : SubprocessExited(returncode, stdout)
    \/ \E proc \in {"running", "exited"} : CommunicateFailed(proc)
    \/ DlDone

\* a caller that awaits each operation before it starts the next
NextPipeline ==
    \/ dl_pc = "idle" /\ NextResolve
    \/ rs_pc = "idle" /\ NextDownload

SpecResolve == InitResolve /\ [][NextResolve]_vars

SpecDownload == Init /\ [][NextDownload]_vars

SpecPipeline == Init /\ [][NextPipeline]_vars

\* download_track with a caller that may cancel it
NextCancel ==
    \/ NextDownload
    \/ CancelDownload
    \/ OrphanExited
    \/ DlAbandoned

SpecCancel == Init /\ [][NextCancel]_vars

\* two concurrent calls of download_track for the same track id and mode
NextConcurrent ==
    \E c \in Callers :
        \/ \E video \in BOOLEAN : CcCallDownloadTrack(c, video)
        \/ \E public_url \in ApiAnswers : CcApiRequestAnswered(c, public_url)
        \/ \E dl \in DownloadAnswers : CcApiDownloadAnswered(c, dl)
        \/ CcCookieFileChosen(c)
        \/ \E writes \in BOOLEAN : CcSubprocessStarted(c, writes)
        \/ CcSubprocessFailed(c)
        \/ \E returncode \in ReturnCodes :
              CcSubprocessExited(c, returncode, ExtractedPath(cc_video[c]).path)
        \/ CcSubprocessExited(c, 0, <<>>)
        \/ CcCommunicateFailed(c)

SpecConcurrent == Init /\ [][NextConcurrent]_vars

\* the developer commands read none of the pipeline's configuration; the
\* database holds any settings when the bot starts
InitDevs ==
    /\ config = NoConfig
    /\ dv_config \in [OWNER_ID : {1}, DEVS : {{}, {2}, {1, 2}}, LOGGER_ID : {0, 100}]
    /\ dv_stored \in [logger : BOOLEAN, auto_end : BOOLEAN, assistants : {{}, {"chat"}}]
    /\ Idle
    /\ fn_arg = None

\* any sequence of incoming command messages
NextDevs ==
    \E message \in Messages :
        \/ exec_eval(message)
        \/ active_vc(message)
        \/ logger(message)
        \/ auto_end(message)
        \/ clear_all_assistants(message)
        \/ logs(message)

SpecDevs == InitDevs /\ [][NextDevs]_vars

----------------------------------------------------------------------------
(* The static methods of YouTubeUtils called directly, one call at a time. *)

MaxFields == 4

\* the text between two colons of a duration
DurationFields ==
    {<<>>, <<"1">>, <<"2">>, <<"0", "2">>, <<"0", "3">>, <<"0", "5">>, <<"4", "5">>,
     <<"a", "b", "c">>, <<" ", "7">>}

\* ":".join(fields)
RECURSIVE JoinColon(_)
JoinColon(fields) ==
    IF Len(fields) = 1 THEN fields[1]
    ELSE fields[1] \o <<":">> \o JoinColon(Tail(fields))

\* the duration strings handed to duration_to_seconds
Durations ==
    {JoinColon(fs) : fs \in UNION {[1..n -> DurationFields] : n \in 1..MaxFields}}

\* the dicts with key k holding one of vs, or without key k
Optional(k, vs) == {<<>>} \cup {[j \in {k} |-> v] : v \in vs}

\* the track_data dicts handed to format_track: each key absent, or holding
\* one of the values an upstream entry may hold under it
TrackDatas ==
    {i @@ t @@ c @@ d @@ th :
        i \in Optional("id", {<<>>, <<QueryId>>}),
        t \in Optional("title", {[str |-> "T1"]}),
        c \in Optional("channel", {<<>>, [name |-> "C1"]}),
        d \in Optional("duration",
                {[str |-> <<"3", ":", "0", "5">>], [str |-> <<"a", "b", "c">>],
                 [secondsText |-> <<"4", "5">>]}),
        th \in Optional("thumbnails",
                {<<>>, <<[url |-> "lo"], [url |-> "hi"]>>, <<[url |-> "lo"], [width |-> 1]>>})}

\* a record format_track returned, as the dict it is: its duration is an int
AsTrackData(track) == [track EXCEPT !.duration = [int |-> track.duration]]

FnReturn(op, ret) ==
    /\ fn_op' = Append(fn_op, op)
    /\ fn_ret' = ret
    /\ UNCHANGED <<config, rs_vars, dl_vars, cc_vars, dv_vars>>

\* YouTubeUtils.duration_to_seconds(duration)
CallDurationToSeconds ==
    /\ fn_op = <<>>
    /\ "duration" \in DOMAIN fn_arg
    /\ FnReturn("duration_to_seconds", duration_to_seconds(fn_arg.duration))
    /\ UNCHANGED fn_arg

\* YouTubeUtils.format_track(track_data) on an upstream entry
CallFormatTrack ==
    /\ fn_op = <<>>
    /\ "track_data" \in DOMAIN fn_arg
    /\ FnReturn("format_track", format_track(fn_arg.track_data))
    /\ UNCHANGED fn_arg

\* YouTubeUtils.format_track(track_data) on the record the last call returned
CallFormatTrackAgain ==
    /\ fn_op = <<"format_track">>
    /\ FnReturn("format_track", format_track(AsTrackData(fn_ret)))
    /\ UNCHANGED fn_arg

\* the optional scheme and www. of a URL
Heads == {<<>>, <<"www.">>, <<"https://">>, <<"http://", "www.">>, <<"https://", "www.">>}

\* what may follow the id: tracking parameters, a fragment, both or nothing
ParamTails == {<<>>, <<"?", "si=", "x">>, <<"#", "x">>, <<"?", "si=", "x", "#", "x">>}
AmpTails == {<<>>, <<"&", "si=", "x">>, <<"#", "x">>, <<"&", "si=", "x", "#", "x">>}

\* the standard watch form of an item
WatchForms(id) ==
    {WatchUrl(<<id>>) \o t : t \in AmpTails}

\* the youtu.be short-link form of an item
ShortLinkForms(id) ==
    {h \o <<"youtu.be", "/", id>> \o t : h \in Heads, t \in ParamTails \cup AmpTails}

\* the shorts form of an item
ShortsForms(id) ==
    {h \o <<"youtube.com", "/", "shorts/", id>> \o t : h \in Heads, t \in ParamTails \cup AmpTails}

SingleItemUrls(id) == WatchForms(id) \cup ShortLinkForms(id) \cup ShortsForms(id)

\* YouTubeUtils._extract_video_id(url) on the url as given
CallExtractVideoId ==
    /\ fn_op = <<>>
    /\ "url" \in DOMAIN fn_arg
    /\ FnReturn("_extract_video_id", _extract_video_id(fn_arg.url))
    /\ UNCHANGED fn_arg

\* YouTubeUtils.clean_query(query)
CallCleanQuery ==
    /\ fn_op = <<>>
    /\ "url" \in DOMAIN fn_arg
    /\ FnReturn("clean_query", [str |-> clean_query(fn_arg.url)])
    /\ UNCHANGED fn_arg

\* YouTubeUtils._extract_video_id(url) on the cleaned query
CallExtractVideoIdCleaned ==
    /\ fn_op = <<"clean_query">>
    /\ FnReturn("_extract_video_id", _extract_video_id(fn_ret.str))
    /\ UNCHANGED fn_arg

\* YouTubeUtils.normalize_youtube_url(url) on the cleaned query
CallNormalizeYoutubeUrl ==
    /\ fn_op = <<"clean_query">>
    /\ FnReturn("normalize_youtube_url", normalize_youtube_url(fn_ret.str))
    /\ UNCHANGED fn_arg

\* YouTubeUtils.fetch_oembed_data(url) on the normalized url; the oEmbed source
\* answers data
CallFetchOembedData(data) ==
    /\ fn_op = <<"clean_query", "normalize_youtube_url">>
    /\ fn_ret # None
    /\ FnReturn("fetch_oembed_data", fetch_oembed_data(fn_ret.str, data))
    /\ fn_arg' = [url |-> fn_arg.url, data |-> data]

UtilArgs ==
    {[duration |-> d] : d \in Durations}
    \cup {[track_data |-> t] : t \in TrackDatas}
    \cup {[url |-> u] : u \in UNION {SingleItemUrls(id) : id \in VideoIds}}

\* the static methods read no configuration
InitUtils ==
    /\ config = NoConfig
    /\ NoDevs
    /\ Idle
    /\ fn_arg \in UtilArgs

NextUtils ==
    \/ CallDurationToSeconds
    \/ CallFormatTrack
    \/ CallFormatTrackAgain
    \/ CallExtractVideoId
    \/ CallCleanQuery
    \/ CallExtractVideoIdCleaned
    \/ CallNormalizeYoutubeUrl
    \/ \E data \in OembedAnswers : CallFetchOembedData(data)

SpecUtils == InitUtils /\ [][NextUtils]_vars

----------------------------------------------------------------------------
(* Properties of the acquisition strategy. *)

\* the hosted tier was entered
ApiEntered == dl_tiers # <<>> /\ dl_tiers[1].tier = "api"

\* the hosted tier returned no path, or raised
ApiFailed == ApiEntered /\ dl_tiers[1].ret \in {None, Raised}

\* the hosted tier returned a path
ApiGavePath == ApiEntered /\ "path" \in DOMAIN dl_tiers[1].ret

\* download_with_yt_dlp was invoked for this id and mode
YtDlpInvoked(video_id, video) ==
    \E k \in 1..Len(dl_tiers) :
        /\ dl_tiers[k].tier = "yt_dlp"
        /\ dl_tiers[k].video_id = video_id
        /\ dl_tiers[k].video = video

\* an external call of the extractor tier was issued
ExtractorCalled ==
    \E k \in 1..Len(dl_calls) :
        dl_calls[k].src \in {"get_cookie_file", "create_subprocess_exec", "communicate"}

\* an external call of the hosted tier was issued
HostedCalled ==
    \E k \in 1..Len(dl_calls) : dl_calls[k].src \in {"make_request", "download_file"}

\* every request of the hosted tier was answered: the HTTP client did not raise
HostedAnswered ==
    \A k \in 1..Len(dl_calls) : dl_calls[k].resp # Raised

\* C1: whenever the hosted tier was entered and failed, for whatever reason
\* (nothing returned, no download_url, a failed transfer, or an exception while
\* the response is handled), download_with_yt_dlp is invoked for the same track
\* id and mode.
C1_ApiFailureFallsThrough ==
    (ApiFailed /\ HostedAnswered) => YtDlpInvoked(dl_track.tc, dl_video)

\* C2: if the hosted tier returns a file path, download_track returns that path
\* and the extractor tier is never started for that call.
C2_ApiPathShortCircuits ==
    ApiGavePath =>
        /\ dl_pc = "done"
        /\ dl_result = dl_tiers[1].ret
        /\ Len(dl_tiers) = 1
        /\ ~ExtractorCalled
        /\ dl_proc = "none"

C2_Witness ==
    /\ dl_pc = "done"
    /\ ApiGavePath
    /\ dl_video
    /\ dl_result = Mp4Path

\* C3: with API_URL1 and API_URL2 both unset, download_track issues no request
\* to the hosted API and goes directly to the extractor tier, for every track
\* and either mode.
C3_UnconfiguredSkipsApi ==
    (config.API_URL1 = "" /\ config.API_URL2 = "") =>
        /\ ~HostedCalled
        /\ \A k \in 1..Len(dl_tiers) : dl_tiers[k].tier # "api"
        /\ (dl_pc # "idle" /\ dl_track # None) =>
              /\ dl_tiers # <<>>
              /\ dl_tiers[1] = Tier("yt_dlp", dl_track.tc, dl_video, dl_tiers[1].ret)

C3_Witness ==
    /\ config.API_URL1 = ""
    /\ config.API_URL2 = ""
    /\ dl_pc = "done"
    /\ dl_video
    /\ dl_proc = "exited"
    /\ YtDlpInvoked(dl_track.tc, TRUE)

\* the last external call was proc.communicate() and it returned
Communicated ==
    /\ dl_pc = "done"
    /\ dl_calls # <<>>
    /\ dl_calls[Len(dl_calls)].src = "communicate"
    /\ dl_calls[Len(dl_calls)].resp # Raised

\* C4: download_with_yt_dlp reports success only when the subprocess exits with
\* code 0 and prints a non-blank path: exit code 0 with empty or whitespace-only
\* stdout is a failure, and so is every non-zero exit code.
C4_ExitCodeAndPath ==
    Communicated =>
        LET out == dl_calls[Len(dl_calls)].resp
            printed == \E k \in 1..Len(out.stdout) : out.stdout[k] \notin Whitespace
        IN  /\ (dl_result # None) <=> (out.returncode = 0 /\ printed)
            /\ dl_tiers[Len(dl_tiers)].ret = dl_result

C4_Witness ==
    /\ Communicated
    /\ dl_calls[Len(dl_calls)].resp.returncode = 0
    /\ dl_calls[Len(dl_calls)].resp.stdout = <<" ", "\n">>
    /\ dl_result = None

----------------------------------------------------------------------------
(* Properties of the classifier and the metadata fetcher. *)

\* C5: an input that carries a list= parameter and matches the collection
\* pattern is handled as a collection, also when a single-item pattern matches
\* it: get_info takes the playlist path and never the single-video path.
C5_ListInputIsCollection ==
    (/\ rs_op = "get_info"
     /\ rs_raw # None
     /\ YOUTUBE_PLAYLIST_PATTERN(rs_raw.str) # None) =>
        /\ rs_pc \notin {"oembed", "url_search"}
        /\ \A k \in 1..Len(rs_calls) : rs_calls[k].src = "playlist"

\* an operation on a single-item URL the classifier accepts has returned, and
\* its oEmbed request was answered (with a payload or with nothing)
SingleItemResolved ==
    /\ rs_pc = "done"
    /\ ~Falsy(rs_query)
    /\ is_valid_url(rs_query)
    /\ rs_calls # <<>>
    /\ rs_calls[1].src = "oembed"
    /\ rs_calls[1].resp # Raised

\* C6: for every single-item form, the oEmbed lookup comes first; when it gave a
\* payload the search is not issued and a record is returned, and in every other
\* case the search-by-URL query is issued for the same url.
C6_OembedThenSearch ==
    SingleItemResolved =>
        IF Truthy(rs_calls[1].resp)
        THEN /\ Len(rs_calls) = 1
             /\ rs_result # None
        ELSE /\ Len(rs_calls) = 2
             /\ rs_calls[2].src = "search"
             /\ rs_calls[2].arg = rs_calls[1].arg

\* an upstream call of the resolution raised
RsRaised(k) == rs_calls[k].resp = Raised

\* an external call of the acquisition raised
DlRaised(k) == dl_calls[k].resp = Raised

\* C7: no exception of an upstream source leaves get_info, search, get_track or
\* download_track: the operation returns None, and nothing is issued after the
\* call that raised.
C7_NoExceptionEscapes ==
    /\ rs_pc = "done" =>
          /\ rs_result # Raised
          /\ \A k \in 1..Len(rs_calls) :
                RsRaised(k) => (rs_result = None /\ k = Len(rs_calls))
    /\ dl_pc = "done" =>
          /\ dl_result # Raised
          /\ \A k \in 1..Len(dl_calls) :
                DlRaised(k) => (dl_result = None /\ k = Len(dl_calls))

C7_Witness ==
    /\ rs_pc = "done"
    /\ rs_op = "get_track"
    /\ Len(rs_calls) = 2
    /\ RsRaised(2)
    /\ rs_result = None

\* C8: every record returned has a non-empty id: each entry of a batch and the
\* track of get_track.
C8_IdsNonEmpty ==
    rs_pc = "done" =>
        /\ "tracks" \in DOMAIN rs_result =>
              \A k \in 1..Len(rs_result.tracks) : rs_result.tracks[k].id # <<>>
        /\ "tc" \in DOMAIN rs_result => rs_result.tc # <<>>

\* get_info on a collection URL has returned and Playlist.getVideos gave a list
PlaylistResolved ==
    /\ rs_pc = "done"
    /\ rs_op = "get_info"
    /\ Len(rs_calls) = 1
    /\ rs_calls[1].src = "playlist"
    /\ "videos" \in DOMAIN rs_calls[1].resp

\* the upstream entry has an id
EntryHasId(v) == "id" \in DOMAIN v /\ Len(v.id) > 0

\* the position in vs of the i-th entry that has an id
KeptIndex(vs, i) ==
    CHOOSE k \in 1..Len(vs) :
        /\ EntryHasId(vs[k])
        /\ Cardinality({j \in 1..k : EntryHasId(vs[j])}) = i

\* the batch is the entries of vs that have an id, in the order of vs
IsBatchOf(result, vs) ==
    /\ "tracks" \in DOMAIN result
    /\ Len(result.tracks) =
          Len(vs) - Cardinality({k \in 1..Len(vs) : ~EntryHasId(vs[k])})
    /\ \A i \in 1..Len(result.tracks) :
          result.tracks[i] = format_track(vs[KeptIndex(vs, i)])

FreeTextSearched ==
    /\ rs_pc = "done"
    /\ rs_op = "search"
    /\ ~Falsy(rs_query)
    /\ ~is_valid_url(rs_query)

\* the search source found nothing
NoResults(resp) ==
    resp = None \/ ("result" \in DOMAIN resp /\ Len(resp.result) = 0)

\* C10: search on a free-text query for which the search source has no results
\* returns None, and never a batch with zero entries.
C10_NoResultsIsNone ==
    FreeTextSearched =>
        /\ NoResults(rs_calls[1].resp) => rs_result = None
        /\ "tracks" \in DOMAIN rs_result => Len(rs_result.tracks) > 0

C10_Witness ==
    /\ FreeTextSearched
    /\ rs_raw = [str |-> <<"song", " ", "name">>]
    /\ "result" \in DOMAIN rs_calls[1].resp
    /\ Len(rs_calls[1].resp.result) = 0
    /\ rs_result = None


----------------------------------------------------------------------------
(* Properties of the static methods. *)

\* the positions of the colons of s
Colons(s) == {i \in 1..Len(s) : s[i] = ":"}

\* the k-th colon-separated field of s
FieldOf(s, k) ==
    LET before == {i \in Colons(s) : Cardinality({j \in Colons(s) : j <= i}) = k - 1}
        after == {i \in Colons(s) : Cardinality({j \in Colons(s) : j <= i}) = k}
        first == IF before = {} THEN 1 ELSE (CHOOSE i \in before : TRUE) + 1
        last == IF after = {} THEN Len(s) ELSE (CHOOSE i \in after : TRUE) - 1
    IN  SubSeq(s, first, last)

\* the field is an integer numeral
IsInteger(f) == "val" \in DOMAIN int(f)

\* the reference: H:M:S, M:S or N, and 0 for every other string
DurationReference(s) ==
    LET n == Cardinality(Colons(s)) + 1
        F(k) == int(FieldOf(s, k)).val
    IN  IF n > 3 \/ \E k \in 1..n : ~IsInteger(FieldOf(s, k)) THEN 0
        ELSE IF n = 3 THEN F(1) * 3600 + F(2) * 60 + F(3)
        ELSE IF n = 2 THEN F(1) * 60 + F(2)
        ELSE F(1)

DurationCalled == fn_op = <<"duration_to_seconds">>

\* C11: duration_to_seconds equals the reference for every input string:
\* H:M:S gives H*3600+M*60+S, M:S gives M*60+S, a bare integer N gives N, and
\* every other string (empty, non-numeric, an empty field, more than three
\* fields) gives 0.
C11_DurationReference ==
    DurationCalled => fn_ret = DurationReference(fn_arg.duration)

\* the examples of C11 and every string of at most three fields do agree
C11_UpToThreeFields ==
    (DurationCalled /\ Cardinality(Colons(fn_arg.duration)) <= 2) =>
        fn_ret = DurationReference(fn_arg.duration)


\* format_track was applied to a record it had produced
FormattedAgain == fn_op = <<"format_track", "format_track">>

\* C12: format_track applied to a record it has already produced yields an
\* identical record, field by field: id, name, artist, duration, cover, year,
\* url, platform.
C12_FormatTrackIdempotent ==
    FormattedAgain =>
        \A k \in {"id", "name", "artist", "duration", "cover", "year", "url", "platform"} :
            fn_ret[k] = format_track(fn_arg.track_data)[k]

\* id, year, url and platform do stay the same
C12_IdUrlKept ==
    FormattedAgain =>
        \A k \in {"id", "year", "url", "platform"} :
            fn_ret[k] = format_track(fn_arg.track_data)[k]


\* the calls made so far started from a form of the item id
FormOf(id) == "url" \in DOMAIN fn_arg /\ fn_arg.url \in SingleItemUrls(id)

\* the url handed to the oEmbed source and what comes back for a payload
CanonicalTarget(id) ==
    /\ fn_op = <<"clean_query", "normalize_youtube_url">> =>
          fn_ret = [str |-> WatchUrl(<<id>>)]
    /\ (fn_op = <<"clean_query", "normalize_youtube_url", "fetch_oembed_data">>
        /\ Truthy(fn_arg.data)) =>
          /\ fn_ret # Raised
          /\ fn_ret.results[1].id = <<id>>
          /\ fn_ret.results[1].url = WatchUrl(<<id>>)

----------------------------------------------------------------------------
(* Further properties of the classifier and the metadata fetcher. *)

\* self.query begins with http:// or https:// and matches none of the patterns
RejectedUrl ==
    /\ ~Falsy(rs_query)
    /\ Head(rs_query.str) \in Schemes
    /\ ~is_valid_url(rs_query)

\* C14: a URL the classifier rejects never reaches the metadata fetcher:
\* get_info and get_track return None for it and issue no oEmbed, search or
\* collection request.
C14_RejectedUrlStops ==
    (rs_op \in {"get_info", "get_track"} /\ RejectedUrl) =>
        /\ rs_pc = "done"
        /\ rs_calls = <<>>
        /\ rs_result = None

\* get_info and search do stop at the classifier
C14_GetInfoStops ==
    (rs_op = "get_info" /\ RejectedUrl) =>
        /\ rs_pc = "done"
        /\ rs_calls = <<>>
        /\ rs_result = None


\* get_track returned a track built from the payload of its last upstream call
TrackResolved(src) ==
    /\ rs_pc = "done"
    /\ rs_op = "get_track"
    /\ "tc" \in DOMAIN rs_result
    /\ rs_calls[Len(rs_calls)].src = src

\* the payload the track was built from
Payload ==
    IF rs_calls[Len(rs_calls)].src = "oembed"
    THEN rs_calls[Len(rs_calls)].resp
    ELSE rs_calls[Len(rs_calls)].resp.result[1]

LacksTitle(payload) == "title" \notin DOMAIN payload

LacksArtist(src, payload) ==
    IF src = "oembed" THEN "author_name" \notin DOMAIN payload
    ELSE "name" \notin DOMAIN Get(payload, "channel", <<>>)

\* the defaults of a track built from the payload of this source
DefaultsFilled(src) ==
    TrackResolved(src) =>
        /\ LacksTitle(Payload) => rs_result.name = UnknownTitle
        /\ LacksArtist(src, Payload) => rs_result.artist = "Unknown Artist"
        /\ rs_result.year = 0
        /\ rs_result.lyrics = "None"
        /\ rs_result.cdnurl = "None"
        /\ rs_result.key = "None"

\* C15: whenever the upstream payload lacks a title or an artist, on the oEmbed
\* path as well as on the search path, the track returned by get_track has the
\* title "Unknown Title" and the artist "Unknown Artist", year 0 and the
\* sentinel "None" for lyrics, cdnurl and key.
C15_DefaultFields ==
    DefaultsFilled("oembed") /\ DefaultsFilled("search")

\* on the search path the defaults are filled
C15_SearchPathDefaults ==
    DefaultsFilled("search")


----------------------------------------------------------------------------
(* Further properties of the acquisition strategy. *)

\* download_track was cancelled while proc.communicate() was awaited
CancelledWhileCommunicating ==
    /\ dl_pc = "cancelled"
    /\ dl_calls # <<>>
    /\ dl_calls[Len(dl_calls)].src = "create_subprocess_exec"
    /\ dl_calls[Len(dl_calls)].resp # Raised

\* C16: when the caller cancels download_track after the subprocess was started,
\* the subprocess is terminated: the request never ends cancelled with the
\* subprocess still running.
C16_CancelTerminatesSubprocess ==
    CancelledWhileCommunicating => dl_proc # "running"


\* the number of times flag occurs in args
Count(args, flag) == Cardinality({i \in 1..Len(args) : args[i] = flag})

\* the k-th external call started the extractor
Spawned(k) == dl_calls[k].src = "create_subprocess_exec"

\* the k-th external call consulted the credential pool
PoolConsulted(k) == dl_calls[k].src = "get_cookie_file"

\* the pool has no credential file
NoCredential(cookies) == ~cookies.exists \/ \A f \in cookies.files : ~EndsWithTxt(f)

\* C18: every extractor invocation carries at most one of --proxy and --cookies:
\* with PROXY configured the proxy flag is attached and get_cookie_file is not
\* consulted; without it at most one credential file is attached, and an absent
\* or empty pool leads to an invocation without either flag, not to a failure.
C18_ProxyOrCookies ==
    /\ \A k \in 1..Len(dl_calls) :
          Spawned(k) =>
              LET args == dl_calls[k].arg
              IN  /\ Count(args, "--proxy") + Count(args, "--cookies") <= 1
                  /\ config.PROXY # "" =>
                        /\ Count(args, "--proxy") = 1
                        /\ \E i \in 1..Len(args) - 1 :
                              args[i] = "--proxy" /\ args[i + 1] = config.PROXY
                        /\ \A j \in 1..Len(dl_calls) : ~PoolConsulted(j)
                  /\ config.PROXY = "" =>
                        /\ Count(args, "--proxy") = 0
                        /\ k > 1 /\ PoolConsulted(k - 1)
                        /\ Count(args, "--cookies") =
                              IF dl_calls[k - 1].resp = None THEN 0 ELSE 1
    /\ \A k \in 1..Len(dl_calls) :
          (PoolConsulted(k) /\ NoCredential(dl_calls[k].arg)) =>
              /\ dl_calls[k].resp = None
              /\ IF k = Len(dl_calls) THEN dl_pc = "spawn" /\ dl_params = <<>>
                 ELSE /\ Spawned(k + 1)
                      /\ Count(dl_calls[k + 1].arg, "--proxy") = 0
                      /\ Count(dl_calls[k + 1].arg, "--cookies") = 0

C18_Witness ==
    /\ config.PROXY = ""
    /\ Len(dl_calls) = 2
    /\ PoolConsulted(1)
    /\ dl_calls[1].arg = [exists |-> TRUE, files |-> {"notes.md"}]
    /\ Spawned(2)
    /\ dl_calls[2].resp # Raised
    /\ dl_proc = "running"


\* a request of the hosted tier is pending or was issued
HostedRequested ==
    dl_pc \in {"api_request", "api_download"} \/ HostedCalled

\* the template of the requested mode is set
ModeConfigured ==
    IF dl_video THEN config.API_URL2 # "" ELSE config.API_URL1 # ""

\* C19: the hosted tier sends a request only to an endpoint configured for the
\* requested mode: with video=False only if API_URL1 is set, with video=True only
\* if API_URL2 is set; no request is built from an unset template.
C19_EndpointForMode ==
    HostedRequested => ModeConfigured

\* no request is sent when neither template is set
C19_SomeEndpointSet ==
    HostedRequested => HostedConfigured(config)


\* the call of c returned a path
ReturnedPath(c) == cc_pc[c] = "done" /\ cc_result[c] \in Paths

\* the file was whole and nobody was writing to it
Complete(file) == file.content = "complete" /\ file.writers = {}

\* C17: two concurrent download_track calls for the same track id and mode are
\* benign: a path returned by either call names a complete file, one that the
\* other call is not writing to and has not left partially written.  Stated for
\* the paths of the extractor tier.
C17_ReturnedFileComplete ==
    \A c \in Callers :
        (ReturnedPath(c) /\ cc_seen[c].tier = "yt_dlp") => Complete(cc_seen[c].file)

\* a call that runs alone returns complete files only
C17_AloneComplete ==
    \A c \in Callers :
        (ReturnedPath(c) /\ \A o \in Callers \ {c} : cc_pc[o] = "idle") =>
            Complete(cc_seen[c].file)


----------------------------------------------------------------------------
(* Properties of the developer commands. *)

\* handling the last message modified what the database holds
StoredModified == dv_stored # dv_before

\* C20: across any sequence of command messages, a privileged effect happens
\* only while a message of an authorized sender is handled: the stored logger
\* status, auto-end flag and assistant assignments are modified, and the log
\* file is sent, only when the sender is in DEVS; code is evaluated only when
\* the sender is OWNER_ID; a message of any other sender leaves every stored
\* setting unchanged.
C20_PrivilegedOnlyForAuthorized ==
    dv_msg # None =>
        /\ (StoredModified \/ "reply_document:bot.log" \in dv_effects) =>
              dv_msg.from_id \in dv_config.DEVS
        /\ "meval" \in dv_effects => dv_msg.from_id = dv_config.OWNER_ID
        /\ (dv_msg.from_id \notin dv_config.DEVS /\ dv_msg.from_id # dv_config.OWNER_ID) =>
              /\ dv_stored = dv_before
              /\ dv_effects \subseteq {"del_msg"}

C20_Witness ==
    /\ dv_msg # None
    /\ dv_msg.from_id = 2
    /\ dv_msg.command = "logger"
    /\ dv_msg.args = "ON"
    /\ dv_config.DEVS = {2}
    /\ ~dv_before.logger
    /\ dv_stored.logger

=============================================================================
